---- MODULE Spec2Model ----
(***************************************************************************)
(* rsr: recursive search and replace (src/src/main.rs).                    *)
(*                                                                         *)
(* Text is a sequence of characters.  A regular expression is one of the   *)
(* forms the model draws from: a literal, or ".*" (the expression          *)
(* StringReplacer::new supplies itself).  A file system is a function from *)
(* the paths of the files of a directory tree to [content, mode] records.  *)
(***************************************************************************)
EXTENDS Integers, Sequences, FiniteSets, TLC

\* ------------------------------------------------------------------ bounds
MaxLines == 2   \* lines of the file "a" at start
BufCap == 3     \* capacity of the BufWriter, in characters
MaxFaults == 2  \* I/O operations that fail in one run

\* ------------------------------------------------------------------- text
NL == "\n"
SP == " "

\* the marker appended to a filename, as one character of a name
tmp_suffix == <<".rsr_tmp">>

RECURSIVE Flatten(_)
Flatten(ss) == IF ss = <<>> THEN <<>> ELSE Head(ss) \o Flatten(Tail(ss))

Drop(s, n) == SubSeq(s, n + 1, Len(s))
Take(s, n) == SubSeq(s, 1, n)

\* str::trim: strip leading and trailing whitespace
IsSpace(c) == c \in {NL, SP}
RECURSIVE TrimStart(_)
TrimStart(s) == IF s # <<>> /\ IsSpace(Head(s)) THEN TrimStart(Tail(s)) ELSE s
RECURSIVE TrimEnd(_)
TrimEnd(s) ==
    IF s # <<>> /\ IsSpace(s[Len(s)]) THEN TrimEnd(Take(s, Len(s) - 1)) ELSE s
trim(s) == TrimEnd(TrimStart(s))

\* BufRead::read_line: the characters from offset pos up to and including the
\* next line terminator, or up to the end of the content; <<>> (count 0) at
\* the end of the content only.
RECURSIVE LineEnd(_, _)
LineEnd(content, pos) ==
    IF pos >= Len(content) THEN Len(content)
    ELSE IF content[pos + 1] = NL THEN pos + 1
    ELSE LineEnd(content, pos + 1)
read_line(content, pos) == SubSeq(content, pos + 1, LineEnd(content, pos))

RECURSIVE LinesFrom(_, _)
LinesFrom(content, pos) ==
    IF pos >= Len(content) THEN <<>>
    ELSE <<read_line(content, pos)>> \o LinesFrom(content, LineEnd(content, pos))
Lines(content) == LinesFrom(content, 0)

\* ------------------------------------------------------- regex::Regex
NoRegex == [some |-> FALSE, kind |-> "none", s |-> <<>>]
Lit(s) == [some |-> TRUE, kind |-> "lit", s |-> s]
DotStar == [some |-> TRUE, kind |-> "dotstar", s |-> <<>>]
\* a pattern given on the command line that does not compile
BadPattern == [some |-> TRUE, kind |-> "bad", s |-> <<"(">>]
NoString == [some |-> FALSE, v |-> <<>>]
SomeString(v) == [some |-> TRUE, v |-> v]

\* end offset of the run of characters other than the line terminator ('.')
RECURSIVE RunEnd(_, _)
RunEnd(text, i) ==
    IF i >= Len(text) \/ text[i + 1] = NL THEN i ELSE RunEnd(text, i + 1)

\* end offset of the match of re that starts at offset i, or -1
MatchEnd(re, text, i) ==
    IF re.kind = "dotstar" THEN RunEnd(text, i)
    ELSE IF i + Len(re.s) <= Len(text) /\ SubSeq(text, i + 1, i + Len(re.s)) = re.s
         THEN i + Len(re.s)
         ELSE -1

\* leftmost match at or after offset start: <<start, end>>, or <<-1, -1>>
RECURSIVE FindAt(_, _, _)
FindAt(re, text, start) ==
    IF start > Len(text) THEN <<-1, -1>>
    ELSE IF MatchEnd(re, text, start) # -1 THEN <<start, MatchEnd(re, text, start)>>
    ELSE FindAt(re, text, start + 1)

is_match(re, text) == FindAt(re, text, 0)[1] # -1

\* Regex::replace_all over the non-overlapping matches of find_iter: an empty
\* match that ends where the previous match ended is skipped.
RECURSIVE ReplaceFrom(_, _, _, _, _, _, _)
ReplaceFrom(re, rep, text, last_end, last_match, copied, acc) ==
    LET m == FindAt(re, text, last_end) IN
    IF m[1] = -1 THEN acc \o Drop(text, copied)
    ELSE IF m[1] = m[2]
         THEN IF m[2] = last_match
              THEN ReplaceFrom(re, rep, text, m[2] + 1, last_match, copied, acc)
              ELSE ReplaceFrom(re, rep, text, m[2] + 1, m[2], m[2],
                               acc \o SubSeq(text, copied + 1, m[1]) \o rep)
         ELSE ReplaceFrom(re, rep, text, m[2], m[2], m[2],
                          acc \o SubSeq(text, copied + 1, m[1]) \o rep)
replace_all(re, text, rep) == ReplaceFrom(re, rep, text, 0, -1, 0, <<>>)

\* main's handling of -i and -s: a pattern that does not compile is reported
\* and becomes None
Regex_new(pattern) ==
    IF pattern.some /\ pattern.kind = "bad" THEN NoRegex ELSE pattern

\* ------------------------------------------------------- StringReplacer
\* mutant: no search expression is supplied for a lone replace pattern
StringReplacer_new_plain(search_expression, replace_pattern) ==
    [search_expression |-> search_expression, replace_pattern |-> replace_pattern]

StringReplacer_new(search_expression, replace_pattern) ==
    IF ~search_expression.some /\ replace_pattern.some
    THEN [search_expression |-> DotStar, replace_pattern |-> replace_pattern]
    ELSE [search_expression |-> search_expression, replace_pattern |-> replace_pattern]

matches(self, text) ==
    IF self.search_expression.some THEN is_match(self.search_expression, text) ELSE TRUE

has_search(self) == self.search_expression.some

has_replace(self) == self.replace_pattern.some

do_replace(self, text) ==
    IF self.search_expression.some
    THEN IF self.replace_pattern.some
         THEN replace_all(self.search_expression, text, self.replace_pattern.v)
         ELSE text
    ELSE text


\* mutant: the search takes precedence over the rewrite
ContentAction_search_first(tr) ==
    IF has_search(tr) THEN "search"
    ELSE IF has_replace(tr) THEN "rewrite"
    ELSE "none"

ContentAction(tr) ==
    IF has_replace(tr) THEN "rewrite"
    ELSE IF has_search(tr) THEN "search"
    ELSE "none"

\* --------------------------------------------------------------- files
DefaultMode == "default"
CustomMode == "custom"
NoName == <<>>

File(content, mode) == [content |-> content, mode |-> mode]

\* the file system fsx with path bound to record rec
Bind(fsx, path, rec) ==
    [p \in DOMAIN fsx \cup {path} |-> IF p = path THEN rec ELSE fsx[p]]
\* the file system fsx without path
Unlink(fsx, path) == [p \in DOMAIN fsx \ {path} |-> fsx[p]]
\* std::fs::rename: the record of from moves to to, replacing what was there
Rename(fsx, from, to) == Unlink(Bind(fsx, to, fsx[from]), from)
\* the file at path with data appended
Append_(fsx, path, content) == Bind(fsx, path, File(content, fsx[path].mode))

\* A path is the directories from the root down, each one element, and then
\* the characters of the filename; the root directory is the empty path.
DirParts == {"d/"}
Root == <<>>
\* Path::file_name
RECURSIVE file_name(_)
file_name(path) ==
    IF path # <<>> /\ Head(path) \in DirParts THEN file_name(Tail(path)) ELSE path
\* the directory a file is in
parent(path) == Take(path, Len(path) - Len(file_name(path)))
\* Path::with_file_name
with_file_name(path, name) == parent(path) \o name
\* a byte that is no valid Unicode
BadByte == "\\xFF"
\* OsStr::to_str gives Some
to_str_ok(name) == \A i \in 1..Len(name) : name[i] # BadByte

\* the directories of a tree: those that hold a file, and those above them
Dirs(fsx) ==
    UNION {{Take(parent(p), k) : k \in 1..Len(parent(p))} : p \in DOMAIN fsx}
IsDir(fsx, path) == path \in Dirs(fsx)
\* the entries read_dir lists for directory d
read_dir(fsx, d) ==
    {p \in DOMAIN fsx : parent(p) = d}
    \cup {x \in Dirs(fsx) : Take(x, Len(x) - 1) = d}

\* input_path.with_file_name(input_filename + ".rsr_tmp")
tmp_path(input_path) == with_file_name(input_path, file_name(input_path) \o tmp_suffix)

\* mutant: create instead of create_new
CanCreateNew_create(fsx, path) == TRUE

\* OpenOptions::create_new: the path must not exist
CanCreateNew(fsx, path) == path \notin DOMAIN fsx

\* ----------------------------------------------------------- BufWriter
\* flush_buf: the buffer reaches the file, or the write fails after a prefix
FlushOutcomes(buf, content) ==
    {[ok |-> TRUE, buf |-> <<>>, content |-> content \o buf]}
    \cup {[ok |-> FALSE, buf |-> Drop(buf, k), content |-> content \o Take(buf, k)] :
            k \in 0..(Len(buf) - 1)}

\* a chunk at least as long as the capacity is written through, a shorter one
\* is kept in the buffer
Store(buf, content, chunk) ==
    IF Len(chunk) >= BufCap
    THEN {[ok |-> TRUE, buf |-> buf, content |-> content \o chunk]}
         \cup {[ok |-> FALSE, buf |-> buf, content |-> content \o Take(chunk, k)] :
                 k \in 0..(Len(chunk) - 1)}
    ELSE {[ok |-> TRUE, buf |-> buf \o chunk, content |-> content]}

\* BufWriter::write_all
write_all(buf, content, chunk) ==
    IF Len(buf) + Len(chunk) > BufCap
    THEN UNION {IF f.ok THEN Store(f.buf, f.content, chunk) ELSE {f} :
                  f \in FlushOutcomes(buf, content)}
    ELSE Store(buf, content, chunk)

\* ------------------------------------------------------------- state
VARIABLES
    args,            \* the command line: -i, -o, -s, -r as given
    filename_replacer, text_replacer, prompt, quiet,   \* RSRInstance
    fs,              \* the directory: file name -> [content, mode]
    iter,            \* entries read_dir has still to yield
    dir,             \* the directory handle_directory is in
    stack,           \* the calls of handle_directory that wait: [dir, iter]
    handled,         \* the entries handle_file was called on, and has returned
    failed,          \* the directories and entries that could not be read
    pc,              \* position in handle_directory / handle_file / the session
    file,            \* handle_file's file
    print_filename,
    tmp_file, rpos, line_number, wbuf,   \* the rewrite or search session
    handles,         \* open file handles: "reader", "writer"
    stdout,          \* messages printed, in order
    \* history
    fs0,             \* the directory at start
    sess0,           \* the directory when the current session started
    written,         \* the chunks handed to write_all with result Ok
    answers,         \* per line read: "none" (no prompt), "yes", "no"
    errs,            \* I/O failures of the current file: [kind, path]
    outcome,         \* how the current file's session ended
    calls,           \* content actions invoked on the current file
    rn,              \* the rename step of the current file
    log,             \* file operations of the current session, in order
    faults,          \* I/O operations that have failed so far
    pass,            \* the run of the program: "first", "second"
    pass1,           \* the directory when the first run ended
    rewritten        \* the files that hold what a rewrite of the first run, in
                     \* which no step failed, produced

cfg_vars == <<args, filename_replacer, text_replacer, prompt, quiet>>
sess_vars == <<tmp_file, rpos, line_number, wbuf>>
hist_vars == <<fs0, sess0, written, answers, errs, outcome, calls, rn, log>>
run_vars == <<pass, pass1, rewritten>>
walk_vars == <<dir, stack, handled, failed>>
vars == <<cfg_vars, run_vars, walk_vars, fs, iter, pc, file, print_filename, sess_vars, handles,
          stdout, hist_vars, faults>>

\* ------------------------------------------------------------- inputs
A == <<"a">>
B == <<"b">>

TermLines == {<<"a", NL>>, <<NL>>}
LastLines == TermLines \cup {<<"a">>}
RECURSIVE ContentsOf(_)
ContentsOf(k) ==
    IF k = 0 THEN {<<>>}
    ELSE IF k = 1 THEN LastLines
    ELSE {l \o c : l \in TermLines, c \in ContentsOf(k - 1)}
InitContents == UNION {ContentsOf(k) : k \in 0..MaxLines}

\* the command lines: the values of -i, -o, -s, -r
Args(i, o, s, r) == [input |-> i, output |-> o, search |-> s, replace |-> r]
CommandLines ==
    {Args(NoRegex, NoString, NoRegex, NoString),
     Args(NoRegex, NoString, Lit(A), NoString),
     Args(NoRegex, NoString, NoRegex, SomeString(B)),
     Args(NoRegex, NoString, Lit(A), SomeString(B)),
     Args(NoRegex, NoString, Lit(<<NL>>), SomeString(B)),
     Args(Lit(A), NoString, Lit(A), SomeString(<<"b", "b">>)),
     Args(Lit(A), SomeString(B), NoRegex, NoString),
     Args(NoRegex, SomeString(B), NoRegex, NoString),
     Args(Lit(A), SomeString(B), Lit(A), SomeString(B)),
     Args(Lit(A), SomeString(A), Lit(A), NoString),
     Args(BadPattern, NoString, BadPattern, SomeString(B)),
     Args(NoRegex, SomeString(B), BadPattern, NoString)}

\* the directory at start: the file "a" alone, with any of the contents; or a
\* one-line "a" beside a file "b", beside a file at the temporary path of
\* "a", beside a file "a" in the subdirectory "d", or beside a file whose name
\* is not valid Unicode
InitFs ==
    {[p \in {A} |-> File(c, CustomMode)] : c \in InitContents}
    \cup {[p \in {A, other} |-> IF p = A THEN File(<<"a", NL>>, CustomMode)
                                 ELSE File(<<"b", NL>>, DefaultMode)] :
            other \in {B, tmp_path(A), <<"d/", "a">>, <<BadByte>>}}

\* what a read of standard input may give: a line, nothing at the end of the
\* input, or a failure
Responses ==
    {[read |-> TRUE, ok |-> TRUE, s |-> s] :
        s \in {<<"y", NL>>, <<SP, "y", NL>>, <<"n", NL>>, <<"y", "e", "s", NL>>,
               <<NL>>, <<>>}}
    \cup {[read |-> TRUE, ok |-> FALSE, s |-> <<>>]}
\* standard input is not read
NoInput == [read |-> FALSE, ok |-> FALSE, s |-> <<>>]

NoCalls == [rewrite |-> 0, search |-> 0]
NoRename == [wanted |-> FALSE, new |-> NoName, answer |-> "none", result |-> "none",
             pre |-> <<>>]

\* what main prints for a pattern: the failure to compile it
CompileOut(pattern) ==
    IF pattern.some /\ pattern.kind = "bad"
    THEN <<[kind |-> "bad_regex", path |-> NoName, n |-> 0, text |-> pattern.s]>>
    ELSE <<>>

\* The state when main calls handle_directory on the root directory.
Init ==
    /\ args \in CommandLines
    /\ filename_replacer = StringReplacer_new(Regex_new(args.input), args.output)
    /\ text_replacer = StringReplacer_new(Regex_new(args.search), args.replace)
    /\ prompt \in BOOLEAN
    /\ quiet \in BOOLEAN
    /\ fs \in InitFs
    /\ fs0 = fs
    /\ iter = {}
    /\ dir = Root
    /\ stack = <<>>
    /\ handled = {}
    /\ failed = {}
    /\ pc = "read_dir"
    /\ file = NoName
    /\ print_filename = FALSE
    /\ tmp_file = NoName
    /\ rpos = 0
    /\ line_number = 0
    /\ wbuf = <<>>
    /\ handles = {}
    /\ stdout = CompileOut(args.input) \o CompileOut(args.search)
    /\ sess0 = <<>>
    /\ written = <<>>
    /\ answers = <<>>
    /\ errs = {}
    /\ outcome = "none"
    /\ calls = NoCalls
    /\ rn = NoRename
    /\ log = <<>>
    /\ faults = 0
    /\ pass = "first"
    /\ pass1 = <<>>
    /\ rewritten = {}

\* -------------------------------------------------------------- output
Msg(kind, path, n) == [kind |-> kind, path |-> path, n |-> n, text |-> <<>>]
MsgText(kind, path, n, text) == [kind |-> kind, path |-> path, n |-> n, text |-> text]
Err(kind, path) == [kind |-> kind, path |-> path]

\* mutant: println! that quiet mode suppresses
Println_quiet(out, m) == IF quiet THEN out ELSE Append(out, m)

\* println!
Println(out, m) == Append(out, m)
\* info!
Info(out, m) == IF quiet THEN out ELSE Println(out, m)

\* mutant: a failed read of standard input counts as consent
confirm_default_yes(resp) ==
    IF prompt THEN (IF resp.ok THEN trim(resp.s) = <<"y">> ELSE TRUE) ELSE TRUE

\* confirm: the answer, given what standard input returns
confirm(resp) ==
    IF prompt THEN (IF resp.ok THEN trim(resp.s) = <<"y">> ELSE FALSE) ELSE TRUE
\* what confirm prints
ConfirmOut(out, m) == IF prompt THEN Println(out, m) ELSE out
\* standard input is read only when prompting
ConfirmInputs == IF prompt THEN Responses ELSE {NoInput}
\* what the user answered: "yes" for a response that is y once trimmed, "no"
\* for any other response, the end of the input or a failed read, "none"
\* when standard input was not read
Answer(resp) ==
    IF ~resp.read THEN "none"
    ELSE IF resp.ok /\ trim(resp.s) = <<"y">> THEN "yes" ELSE "no"


\* an I/O operation may still fail
CanFail == faults < MaxFaults

\* ------------------------------------------------------ handle_directory
\* handle_directory returns: to the loop of the call that waits, or to main
Returned ==
    IF stack = <<>>
    THEN [pc |-> "done", dir |-> dir, iter |-> {}, stack |-> <<>>]
    ELSE [pc |-> "iter", dir |-> Head(stack).dir, iter |-> Head(stack).iter,
          stack |-> Tail(stack)]

\* mutant: a directory that cannot be read ends the traversal
ReadDirFailed_fatal == [pc |-> "done", dir |-> dir, iter |-> {}, stack |-> <<>>]

\* after read_dir has failed: the message, and handle_directory returns
ReadDirFailed == Returned

\* read_dir fails on the directory
ReadDirErr ==
    /\ pc = "read_dir"
    /\ CanFail
    /\ faults' = faults + 1
    /\ stdout' = Info(stdout, Msg("read_dir_failed", dir, 0))
    /\ failed' = failed \cup {dir}
    /\ pc' = ReadDirFailed.pc
    /\ dir' = ReadDirFailed.dir
    /\ iter' = ReadDirFailed.iter
    /\ stack' = ReadDirFailed.stack
    /\ UNCHANGED <<cfg_vars, run_vars, handled, fs, file, print_filename, sess_vars,
                   handles, hist_vars>>

\* read_dir lists the entries of the directory: each is yielded once, in any
\* order
ReadDirOk ==
    /\ pc = "read_dir"
    /\ iter' = read_dir(fs, dir)
    /\ pc' = "iter"
    /\ UNCHANGED <<cfg_vars, run_vars, walk_vars, fs, file, print_filename, sess_vars,
                   handles, stdout, hist_vars, faults>>

\* the iterator yields an error in place of entry n
EntryErr(n) ==
    /\ pc = "iter"
    /\ n \in iter
    /\ CanFail
    /\ faults' = faults + 1
    /\ iter' = iter \ {n}
    /\ failed' = failed \cup {n}
    /\ stdout' = Info(stdout, Msg("invalid_entry", dir, 0))
    /\ UNCHANGED <<cfg_vars, run_vars, dir, stack, handled, fs, pc, file, print_filename,
                   sess_vars, handles, hist_vars>>

\* the file type of entry n cannot be read
FileTypeErr(n) ==
    /\ pc = "iter"
    /\ n \in iter
    /\ CanFail
    /\ faults' = faults + 1
    /\ iter' = iter \ {n}
    /\ failed' = failed \cup {n}
    /\ stdout' = Info(stdout, Msg("file_type_failed", n, 0))
    /\ UNCHANGED <<cfg_vars, run_vars, dir, stack, handled, fs, pc, file, print_filename,
                   sess_vars, handles, hist_vars>>

\* entry n is a directory: handle_directory is called on it
HandleSubdirectory(n) ==
    /\ pc = "iter"
    /\ n \in iter
    /\ IsDir(fs, n)
    /\ stack' = <<[dir |-> dir, iter |-> iter \ {n}]>> \o stack
    /\ dir' = n
    /\ iter' = {}
    /\ pc' = "read_dir"
    /\ UNCHANGED <<cfg_vars, run_vars, handled, failed, fs, file, print_filename,
                   sess_vars, handles, stdout, hist_vars, faults>>

\* handle_file on an entry whose filename is not valid Unicode
HandleFileUnparsable(n) ==
    /\ pc = "iter"
    /\ n \in iter
    /\ ~IsDir(fs, n)
    /\ ~to_str_ok(file_name(n))
    /\ iter' = iter \ {n}
    /\ handled' = handled \cup {n}
    /\ stdout' = Info(stdout, Msg("unparsable", n, 0))
    /\ UNCHANGED <<cfg_vars, run_vars, dir, stack, failed, fs, pc, file, print_filename,
                   sess_vars, handles, hist_vars, faults>>

\* handle_file on an entry whose filename does not match: nothing happens
HandleFileNoMatch(n) ==
    /\ pc = "iter"
    /\ n \in iter
    /\ ~IsDir(fs, n)
    /\ to_str_ok(file_name(n))
    /\ ~matches(filename_replacer, file_name(n))
    /\ iter' = iter \ {n}
    /\ handled' = handled \cup {n}
    /\ UNCHANGED <<cfg_vars, run_vars, dir, stack, failed, fs, pc, file, print_filename,
                   sess_vars, handles, stdout, hist_vars, faults>>

\* handle_file on a matching entry, up to the call of the content action
HandleFileMatch(n) ==
    /\ pc = "iter"
    /\ n \in iter
    /\ ~IsDir(fs, n)
    /\ to_str_ok(file_name(n))
    /\ matches(filename_replacer, file_name(n))
    /\ iter' = iter \ {n}
    /\ file' = n
    /\ print_filename' = (ContentAction(text_replacer) = "none")
    /\ pc' = CASE ContentAction(text_replacer) = "rewrite" -> "rfc_open"
               [] ContentAction(text_replacer) = "search" -> "sfc_open"
               [] OTHER -> "rename"
    /\ sess0' = fs
    /\ UNCHANGED <<cfg_vars, run_vars, walk_vars, fs, sess_vars, handles, stdout, fs0,
                   written, answers, errs, outcome, calls, rn, log, faults>>

\* the loop over the entries is over: handle_directory returns
HandleDirectoryDone ==
    /\ pc = "iter"
    /\ iter = {}
    /\ pc' = Returned.pc
    /\ dir' = Returned.dir
    /\ iter' = Returned.iter
    /\ stack' = Returned.stack
    /\ UNCHANGED <<cfg_vars, run_vars, handled, failed, fs, file, print_filename,
                   sess_vars, handles, stdout, hist_vars, faults>>

\* ------------------------------------------------- replace_file_contents
\* mutant: the writer writes to the original in place
output_file_in_place == file

\* the path the writer writes to
output_file == tmp_file

\* the open of the source fails: always when it is missing
RfcOpenErr ==
    /\ pc = "rfc_open"
    /\ (file \in DOMAIN fs) => CanFail
    /\ faults' = IF file \in DOMAIN fs THEN faults + 1 ELSE faults
    /\ stdout' = Info(stdout, Msg("open_failed", file, 0))
    /\ errs' = errs \cup {Err("open", file)}
    /\ outcome' = "open_failed"
    /\ calls' = [calls EXCEPT !.rewrite = @ + 1]
    /\ pc' = "rename"
    /\ UNCHANGED <<cfg_vars, run_vars, walk_vars, fs, iter, file, print_filename, sess_vars, handles,
                   fs0, sess0, written, answers, rn, log>>

RfcOpenOk ==
    /\ pc = "rfc_open"
    /\ file \in DOMAIN fs
    /\ handles' = {"reader"}
    /\ tmp_file' = tmp_path(file)
    /\ calls' = [calls EXCEPT !.rewrite = @ + 1]
    /\ pc' = "rfc_open_tmp"
    /\ UNCHANGED <<cfg_vars, run_vars, walk_vars, fs, iter, file, print_filename, rpos, line_number, wbuf,
                   stdout, fs0, sess0, written, answers, errs, outcome, rn, log, faults>>

\* the create_new open of the temporary file fails: always when it exists
RfcOpenTmpErr ==
    /\ pc = "rfc_open_tmp"
    /\ CanCreateNew(fs, tmp_file) => CanFail
    /\ faults' = IF CanCreateNew(fs, tmp_file) THEN faults + 1 ELSE faults
    /\ stdout' = Println(stdout, Msg("tmp_open_failed", file, 0))
    /\ errs' = errs \cup {Err("tmp_open", file)}
    /\ outcome' = "tmp_failed"
    /\ handles' = {}
    /\ pc' = "rename"
    /\ UNCHANGED <<cfg_vars, run_vars, walk_vars, fs, iter, file, print_filename, sess_vars,
                   fs0, sess0, written, answers, calls, rn, log>>

RfcOpenTmpOk ==
    /\ pc = "rfc_open_tmp"
    /\ CanCreateNew(fs, tmp_file)
    /\ fs' = Bind(fs, tmp_file, File(<<>>, DefaultMode))
    /\ handles' = handles \cup {"writer"}
    /\ line_number' = 1
    /\ pc' = "rfc_loop"
    /\ UNCHANGED <<cfg_vars, run_vars, walk_vars, iter, file, print_filename, tmp_file, rpos, wbuf,
                   stdout, hist_vars, faults>>

\* mutant: an early return that leaves the temporary file behind
EarlyReturn_keep(fsx, buf) ==
    {[fs |-> fsx, errs |-> {}, log |-> <<"close_writer", "close_reader">>, faults |-> 0]}

\* mutant: an early return that closes the handles before the removal
EarlyReturn_close_first(fsx, buf) ==
    {[fs |-> Unlink(Append_(fsx, tmp_file, f.content), tmp_file),
      errs |-> IF f.ok THEN {} ELSE {Err("flush", file)},
      log |-> <<"close_writer", "close_reader", "remove">>,
      faults |-> IF f.ok THEN 0 ELSE 1] :
        f \in FlushOutcomes(buf, fsx[tmp_file].content)}

\* An early return: remove_file(tmp_file), its failure ignored, and then the
\* reader and the writer go out of scope; the writer's drop flushes what it
\* buffers, its failure ignored (the locals are dropped in the reverse order
\* of their declaration).  fsx, buf are the file system and the buffer at the
\* return.  Gives the [fs, errs, log, faults] that may result.
EarlyReturn(fsx, buf) ==
    {[fs |-> Unlink(fsx, tmp_file), errs |-> {},
      log |-> <<"remove", "close_writer", "close_reader">>, faults |-> 0]}
    \cup {[fs |-> Append_(fsx, output_file, f.content),
           errs |-> {Err("remove", file)}
                    \cup (IF f.ok THEN {} ELSE {Err("flush", file)}),
           log |-> <<"remove_failed", "close_writer", "close_reader">>,
           faults |-> IF f.ok THEN 1 ELSE 2] :
            f \in FlushOutcomes(buf, fsx[output_file].content)}

\* mutant: the counter is not incremented before the read
NextLineNumber_stay(n) == n

\* line_number += 1, at the top of the loop before the read
NextLineNumber(n) == n + 1

RfcReadErr ==
    /\ pc = "rfc_loop"
    /\ CanFail
    /\ line_number' = NextLineNumber(line_number)
    /\ stdout' = Println(stdout, Msg("read_failed", file, 0))
    /\ \E r \in EarlyReturn(fs, wbuf) :
          /\ faults + 1 + r.faults <= MaxFaults
          /\ faults' = faults + 1 + r.faults
          /\ fs' = r.fs
          /\ errs' = errs \cup {Err("read", file)} \cup r.errs
          /\ log' = log \o r.log
    /\ wbuf' = <<>>
    /\ handles' = {}
    /\ outcome' = "read_failed"
    /\ pc' = "rename"
    /\ UNCHANGED <<cfg_vars, run_vars, walk_vars, iter, file, print_filename, tmp_file, rpos,
                   fs0, sess0, written, answers, calls, rn>>

RfcReadEof ==
    /\ pc = "rfc_loop"
    /\ rpos = Len(fs[file].content)
    /\ line_number' = NextLineNumber(line_number)
    /\ pc' = "rfc_close"
    /\ UNCHANGED <<cfg_vars, run_vars, walk_vars, fs, iter, file, print_filename, tmp_file, rpos, wbuf,
                   handles, stdout, hist_vars, faults>>

\* mutant: the replaced form is written whatever the answer
Chunk_always(line, new_line, confirmed) == new_line

\* the chunk written for a line: the replaced form when it differs and is
\* confirmed, the line itself otherwise
Chunk(line, new_line, confirmed) ==
    IF new_line # line /\ confirmed THEN new_line ELSE line

\* one iteration of the loop that reads a line: replace, confirm, write
RfcLine ==
    /\ pc = "rfc_loop"
    /\ rpos < Len(fs[file].content)
    /\ LET line == read_line(fs[file].content, rpos)
           new_line == do_replace(text_replacer, line)
           ask == new_line # line
       IN \E resp \in (IF ask THEN ConfirmInputs ELSE {NoInput}) :
          LET chunk == Chunk(line, new_line, confirm(resp))
              out1 == IF ask
                      THEN ConfirmOut(stdout, Msg("confirm_line", file, NextLineNumber(line_number)))
                      ELSE stdout
          IN /\ line_number' = NextLineNumber(line_number)
             /\ rpos' = LineEnd(fs[file].content, rpos)
             /\ answers' = Append(answers, Answer(resp))
             /\ \E w \in write_all(wbuf, fs[output_file].content, chunk) :
                   IF w.ok
                   THEN /\ fs' = Append_(fs, output_file, w.content)
                        /\ wbuf' = w.buf
                        /\ written' = Append(written, chunk)
                        /\ stdout' = out1
                        /\ pc' = "rfc_loop"
                        /\ UNCHANGED <<handles, errs, outcome, log, faults>>
                   ELSE /\ CanFail
                        /\ stdout' = Println(out1, Msg("write_failed", file, 0))
                        /\ \E r \in EarlyReturn(Append_(fs, output_file, w.content), w.buf) :
                              /\ faults + 1 + r.faults <= MaxFaults
                              /\ faults' = faults + 1 + r.faults
                              /\ fs' = r.fs
                              /\ errs' = errs \cup {Err("write", file)} \cup r.errs
                              /\ log' = log \o r.log
                        /\ wbuf' = <<>>
                        /\ handles' = {}
                        /\ outcome' = "write_failed"
                        /\ pc' = "rename"
                        /\ UNCHANGED written
    /\ UNCHANGED <<cfg_vars, run_vars, walk_vars, iter, file, print_filename, tmp_file, fs0, sess0, calls, rn>>

\* drop(reader); drop(writer): the writer's drop flushes, its failure ignored
RfcClose ==
    /\ pc = "rfc_close"
    /\ \E f \in FlushOutcomes(wbuf, fs[output_file].content) :
          /\ (~f.ok) => CanFail
          /\ faults' = IF f.ok THEN faults ELSE faults + 1
          /\ fs' = Append_(fs, output_file, f.content)
          /\ errs' = errs \cup (IF f.ok THEN {} ELSE {Err("flush", file)})
    /\ wbuf' = <<>>
    /\ handles' = {}
    /\ log' = log \o <<"close_reader", "close_writer">>
    /\ pc' = "rfc_perm"
    /\ UNCHANGED <<cfg_vars, run_vars, walk_vars, iter, file, print_filename, tmp_file, rpos, line_number,
                   stdout, fs0, sess0, written, answers, outcome, calls, rn>>

\* mutant: a failed permission copy ends the session
AfterPermissions_fatal(res) == IF res = "ok" THEN "rfc_rename" ELSE "rename"

\* where the session goes after the permission copy: on to the rename
AfterPermissions(res) == "rfc_rename"

\* metadata of the original, then set_permissions on the temporary file
RfcPermissions ==
    /\ pc = "rfc_perm"
    /\ \E res \in (IF CanFail THEN {"ok", "metadata_failed", "set_failed"} ELSE {"ok"}) :
          /\ faults' = IF res = "ok" THEN faults ELSE faults + 1
          /\ fs' = IF res = "ok"
                   THEN Bind(fs, tmp_file, File(fs[tmp_file].content, fs[file].mode))
                   ELSE fs
          /\ stdout' = IF res = "set_failed"
                       THEN Println(stdout, Msg("permissions_failed", file, 0))
                       ELSE stdout
          /\ errs' = errs \cup (IF res = "ok" THEN {} ELSE {Err(res, file)})
          /\ log' = Append(log, IF res = "ok" THEN "set_permissions"
                                ELSE "set_permissions_failed")
          /\ pc' = AfterPermissions(res)
    /\ UNCHANGED <<cfg_vars, run_vars, walk_vars, iter, file, print_filename, sess_vars, handles,
                   fs0, sess0, written, answers, outcome, calls, rn>>

RfcRenameOk ==
    /\ pc = "rfc_rename"
    /\ fs' = Rename(fs, tmp_file, file)
    /\ log' = Append(log, "rename")
    /\ outcome' = "renamed"
    /\ pc' = "rename"
    /\ UNCHANGED <<cfg_vars, run_vars, walk_vars, iter, file, print_filename, sess_vars, handles, stdout,
                   fs0, sess0, written, answers, errs, calls, rn, faults>>

RfcRenameErr ==
    /\ pc = "rfc_rename"
    /\ CanFail
    /\ faults' = faults + 1
    /\ stdout' = Println(stdout, Msg("tmp_rename_failed", file, 0))
    /\ errs' = errs \cup {Err("tmp_rename", file)}
    /\ log' = Append(log, "rename_failed")
    /\ outcome' = "rename_failed"
    /\ pc' = "rename"
    /\ UNCHANGED <<cfg_vars, run_vars, walk_vars, fs, iter, file, print_filename, sess_vars, handles,
                   fs0, sess0, written, answers, calls, rn>>

\* -------------------------------------------------- search_file_contents
SfcOpenErr ==
    /\ pc = "sfc_open"
    /\ (file \in DOMAIN fs) => CanFail
    /\ faults' = IF file \in DOMAIN fs THEN faults + 1 ELSE faults
    /\ stdout' = Info(stdout, Msg("open_failed", file, 0))
    /\ errs' = errs \cup {Err("open", file)}
    /\ outcome' = "open_failed"
    /\ calls' = [calls EXCEPT !.search = @ + 1]
    /\ pc' = "rename"
    /\ UNCHANGED <<cfg_vars, run_vars, walk_vars, fs, iter, file, print_filename, sess_vars, handles,
                   fs0, sess0, written, answers, rn, log>>

SfcOpenOk ==
    /\ pc = "sfc_open"
    /\ file \in DOMAIN fs
    /\ handles' = {"reader"}
    /\ line_number' = 0
    /\ calls' = [calls EXCEPT !.search = @ + 1]
    /\ pc' = "sfc_loop"
    /\ UNCHANGED <<cfg_vars, run_vars, walk_vars, fs, iter, file, print_filename, tmp_file, rpos, wbuf,
                   stdout, fs0, sess0, written, answers, errs, outcome, rn, log, faults>>

SfcReadErr ==
    /\ pc = "sfc_loop"
    /\ CanFail
    /\ faults' = faults + 1
    /\ line_number' = line_number + 1
    /\ stdout' = Println(stdout, Msg("read_failed", file, 0))
    /\ errs' = errs \cup {Err("read", file)}
    /\ handles' = {}
    /\ outcome' = "read_failed"
    /\ pc' = "rename"
    /\ UNCHANGED <<cfg_vars, run_vars, walk_vars, fs, iter, file, print_filename, tmp_file, rpos, wbuf,
                   fs0, sess0, written, answers, calls, rn, log>>

SfcReadEof ==
    /\ pc = "sfc_loop"
    /\ rpos = Len(fs[file].content)
    /\ line_number' = line_number + 1
    /\ handles' = {}
    /\ outcome' = "searched"
    /\ pc' = "rename"
    /\ UNCHANGED <<cfg_vars, run_vars, walk_vars, fs, iter, file, print_filename, tmp_file, rpos, wbuf,
                   stdout, fs0, sess0, written, answers, errs, calls, rn, log, faults>>

\* mutant: every line read is reported
sfc_report_all(out, line, n) == Info(out, MsgText("match", file, n, trim(line)))

\* the report of a line that matches: path, line number, trimmed line
sfc_report(out, line, n) ==
    IF matches(text_replacer, line)
    THEN Info(out, MsgText("match", file, n, trim(line)))
    ELSE out

\* one iteration of the loop that reads a line
SfcLine ==
    /\ pc = "sfc_loop"
    /\ rpos < Len(fs[file].content)
    /\ stdout' = sfc_report(stdout, read_line(fs[file].content, rpos), line_number + 1)
    /\ line_number' = line_number + 1
    /\ rpos' = LineEnd(fs[file].content, rpos)
    /\ UNCHANGED <<cfg_vars, run_vars, walk_vars, fs, iter, pc, file, print_filename, tmp_file, wbuf,
                   handles, hist_vars, faults>>

\* ------------------------------------------------- handle_file, the rest
new_filename(name) ==
    IF has_replace(filename_replacer) THEN do_replace(filename_replacer, name) ELSE name
\* file.with_file_name(new_filename)
new_path(path) == with_file_name(path, new_filename(file_name(path)))

\* mutant: no rename of a file whose content is rewritten
NeedsRename_unless_rewritten(path) ==
    has_replace(filename_replacer) /\ new_path(path) # path
        /\ ~has_replace(text_replacer)

\* "do we need to rename?": a template exists and the new path differs
NeedsRename(path) == has_replace(filename_replacer) /\ new_path(path) # path

\* mutant: the rename is performed whatever the answer
DoRename_always(confirmed) == TRUE

\* whether the rename is performed, given the answer of confirm
DoRename(confirmed) == confirmed

\* mutant: a rename that is called for does not clear print_filename
PrintAfterRename_keep(pf, name) == pf

\* print_filename after the rename block
PrintAfterRename(pf, name) == IF NeedsRename(name) THEN FALSE ELSE pf

\* what std::fs::rename may return: Ok only for an existing file
RenameResults(wanted, confirmed) ==
    IF wanted /\ DoRename(confirmed)
    THEN (IF file \in DOMAIN fs THEN {"ok"} ELSE {})
         \cup (IF (file \in DOMAIN fs) => CanFail THEN {"err"} ELSE {})
    ELSE {"none"}

\* the rename block and the final print of handle_file
HfRename ==
    /\ pc = "rename"
    /\ \E resp \in (IF NeedsRename(file) THEN ConfirmInputs ELSE {NoInput}) :
       \E res \in RenameResults(NeedsRename(file), confirm(resp)) :
          LET wanted == NeedsRename(file)
              pf == PrintAfterRename(print_filename, file)
              out1 == IF wanted
                      THEN ConfirmOut(stdout, MsgText("confirm_rename", file, 0,
                                                      new_path(file)))
                      ELSE stdout
              out2 == IF res = "err"
                      THEN Println(out1, Msg("rename_failed", file, 0))
                      ELSE out1
          IN /\ fs' = IF res = "ok" THEN Rename(fs, file, new_path(file)) ELSE fs
             /\ faults' = IF res = "err" /\ file \in DOMAIN fs THEN faults + 1 ELSE faults
             /\ print_filename' = pf
             /\ stdout' = IF pf THEN Info(out2, Msg("filename", file, 0)) ELSE out2
             /\ errs' = errs \cup (IF res = "err" THEN {Err("rename", file)} ELSE {})
             /\ rn' = [wanted |-> wanted, new |-> new_path(file),
                       answer |-> Answer(resp),
                       result |-> res, pre |-> fs]
    /\ pc' = "hf_end"
    /\ UNCHANGED <<cfg_vars, run_vars, walk_vars, iter, file, sess_vars, handles,
                   fs0, sess0, written, answers, outcome, calls, log>>

\* the files that hold the output of a rewrite of the first run in which no
\* step failed, once handle_file has dealt with the current file
RewrittenAfter ==
    LET ok == calls.rewrite = 1 /\ outcome = "renamed" /\ Err("flush", file) \notin errs
        at == IF rn.result = "ok" THEN rn.new ELSE file
    IN IF pass # "first" THEN rewritten
       ELSE IF ok THEN (rewritten \ {file}) \cup {at}
       ELSE IF rn.result = "ok" THEN rewritten \ {file, rn.new}
       ELSE IF outcome = "renamed" THEN rewritten \ {file}
       ELSE rewritten

\* handle_file returns to the loop of handle_directory
HfReturn ==
    /\ pc = "hf_end"
    /\ pc' = "iter"
    /\ file' = NoName
    /\ print_filename' = FALSE
    /\ tmp_file' = NoName
    /\ rpos' = 0
    /\ line_number' = 0
    /\ wbuf' = <<>>
    /\ sess0' = <<>>
    /\ written' = <<>>
    /\ answers' = <<>>
    /\ errs' = {}
    /\ outcome' = "none"
    /\ calls' = NoCalls
    /\ rn' = NoRename
    /\ log' = <<>>
    /\ rewritten' = RewrittenAfter
    /\ handled' = handled \cup {file}
    /\ UNCHANGED <<cfg_vars, pass, pass1, dir, stack, failed, fs, iter, handles, stdout,
                   fs0, faults>>

\* ------------------------------------------------------------------ main
\* the program is run a second time, with the same command line, on the
\* directory the first run left; the second run modelled is the one that
\* follows a first run without prompting in which no operation failed
MainAgain ==
    /\ pc = "done"
    /\ pass = "first"
    /\ faults = 0
    /\ ~prompt
    /\ pass' = "second"
    /\ pass1' = fs
    /\ fs0' = fs
    /\ iter' = {}
    /\ dir' = Root
    /\ stack' = <<>>
    /\ handled' = {}
    /\ failed' = {}
    /\ stdout' = CompileOut(args.input) \o CompileOut(args.search)
    /\ pc' = "read_dir"
    /\ UNCHANGED <<cfg_vars, rewritten, fs, file, print_filename, sess_vars, handles,
                   sess0, written, answers, errs, outcome, calls, rn, log, faults>>

\* ------------------------------------------------------- specification
Next ==
    \/ ReadDirErr
    \/ ReadDirOk
    \/ \E n \in iter : EntryErr(n)
    \/ \E n \in iter : FileTypeErr(n)
    \/ \E n \in iter : HandleSubdirectory(n)
    \/ \E n \in iter : HandleFileUnparsable(n)
    \/ \E n \in iter : HandleFileNoMatch(n)
    \/ \E n \in iter : HandleFileMatch(n)
    \/ HandleDirectoryDone
    \/ RfcOpenErr
    \/ RfcOpenOk
    \/ RfcOpenTmpErr
    \/ RfcOpenTmpOk
    \/ RfcReadErr
    \/ RfcReadEof
    \/ RfcLine
    \/ RfcClose
    \/ RfcPermissions
    \/ RfcRenameOk
    \/ RfcRenameErr
    \/ SfcOpenErr
    \/ SfcOpenOk
    \/ SfcReadErr
    \/ SfcReadEof
    \/ SfcLine
    \/ HfRename
    \/ HfReturn
    \/ MainAgain

Spec == Init /\ [][Next]_vars

TypeOK ==
    /\ pc \in {"read_dir", "iter", "rfc_open", "rfc_open_tmp", "rfc_loop", "rfc_close", "rfc_perm",
               "rfc_rename", "sfc_open", "sfc_loop", "rename", "hf_end", "done"}
    /\ handles \subseteq {"reader", "writer"}
    /\ Len(wbuf) <= BufCap
    /\ faults \in 0..MaxFaults
    /\ pass \in {"first", "second"}


\* =================================================================== claims
InSession ==
    pc \in {"rfc_open_tmp", "rfc_loop", "rfc_close", "rfc_perm", "rfc_rename"}
\* replace_file_contents has returned for the current file
RfcEnded == pc = "rename" /\ calls.rewrite = 1
\* the session created its temporary file
TmpCreated == outcome \in {"read_failed", "write_failed", "renamed", "rename_failed"}

\* the lines of the original when the session started
Lines0 == Lines(sess0[file].content)
\* the chunk the rule of the loop gives for line i, under the answers given
Expected ==
    [i \in 1..Len(Lines0) |->
        LET new_line == do_replace(text_replacer, Lines0[i])
        IN IF new_line # Lines0[i] /\ (~prompt \/ answers[i] = "yes")
           THEN new_line ELSE Lines0[i]]

\* C1: after replace_file_contents, the original path holds the content it had
\* at session start or the complete rewritten content, one chunk per line read.
C1_OriginalOrComplete ==
    RfcEnded =>
        /\ file \in DOMAIN fs
        /\ \/ fs[file].content = sess0[file].content
           \/ /\ Len(written) = Len(Lines0)
              /\ fs[file].content = Flatten(written)

\* C2: until the final rename succeeds, every file that existed when the
\* session started, the original among them, is as it was: the writes go to
\* the temporary file only.
C2_OriginalUntouchedBeforeRename ==
    (InSession \/ (RfcEnded /\ outcome # "renamed")) =>
        \A p \in DOMAIN sess0 : p \in DOMAIN fs /\ fs[p] = sess0[p]

C2_Witness ==
    /\ RfcEnded
    /\ outcome = "write_failed"
    /\ written # <<>>
    /\ fs[file] = sess0[file]

\* C3: when a file exists at the temporary path as the session starts, the
\* session aborts: no line is read or written, no file operation is performed
\* and the file system is unchanged.
C3_ExistingTmpAborts ==
    (file # NoName /\ pc # "hf_end" /\ calls.rewrite = 1 /\ tmp_path(file) \in DOMAIN sess0) =>
        /\ pc \in {"rfc_open_tmp", "rename"}
        /\ rpos = 0
        /\ line_number = 0
        /\ written = <<>>
        /\ answers = <<>>
        /\ log = <<>>
        /\ fs = sess0

C3_Witness ==
    /\ pc = "rename"
    /\ tmp_path(file) \in DOMAIN sess0
    /\ outcome = "tmp_failed"
    /\ Len(sess0[file].content) > 0

\* C4 as stated: after a session that created its temporary file, that file
\* exists if and only if the final rename failed.
C4_TmpRemainsIffRenameFailed ==
    (RfcEnded /\ TmpCreated) => (tmp_file \in DOMAIN fs <=> outcome = "rename_failed")

\* C4 amended: after a session that created its temporary file, that file
\* exists if and only if the final rename failed or, after a read or write
\* failure, the removal of the temporary file failed; after a failed rename
\* the original is unchanged.
C4_TmpRemainsIffRenameOrRemoveFailed ==
    (RfcEnded /\ TmpCreated) =>
        /\ tmp_file \in DOMAIN fs <=>
              (outcome = "rename_failed" \/ Err("remove", file) \in errs)
        /\ outcome = "rename_failed" => fs[file] = sess0[file]
        /\ outcome = "renamed" => file \in DOMAIN fs

C4_Witness ==
    /\ RfcEnded
    /\ outcome \in {"read_failed", "write_failed"}
    /\ Err("remove", file) \in errs
    /\ tmp_file \in DOMAIN fs

\* the session ran to the rename and no step of it failed
Success == RfcEnded /\ outcome = "renamed" /\ Err("flush", file) \notin errs

\* the line numbers of the change prompts printed for the current file
RECURSIVE PromptNumbers(_)
PromptNumbers(out) ==
    IF out = <<>> THEN <<>>
    ELSE (IF Head(out).kind = "confirm_line" /\ Head(out).path = file
          THEN <<Head(out).n>> ELSE <<>>) \o PromptNumbers(Tail(out))
\* the line numbers the prompts should carry: one per line asked about
RECURSIVE AskedNumbers(_)
AskedNumbers(i) ==
    IF i > Len(answers) THEN <<>>
    ELSE (IF answers[i] # "none" THEN <<i + 1>> ELSE <<>>) \o AskedNumbers(i + 1)

PromptsRight ==
    /\ Len(answers) = Len(Lines0)
    /\ \A i \in 1..Len(Lines0) :
          answers[i] # "none" <=>
              (prompt /\ do_replace(text_replacer, Lines0[i]) # Lines0[i])
    /\ PromptNumbers(stdout) = AskedNumbers(1)

\* C5 as stated: after a successful session the file has as many lines as
\* before, line i being the replaced form of line i if it differs and was
\* confirmed (or prompting is off), the original line i otherwise.
C5_SameLinesRewritten ==
    Success => (Lines(fs[file].content) = Expected /\ PromptsRight)

\* C5 amended: after a successful session the content is the concatenation, in
\* order, of one chunk per line read, the chunk of line i being the replaced
\* form if it differs and was confirmed (or prompting is off), the original
\* line otherwise; the prompts are for the lines whose replaced form differs,
\* one per line.  (The number of lines of the result may differ.)
C5_ChunkPerLine ==
    Success =>
        /\ written = Expected
        /\ fs[file].content = Flatten(Expected)
        /\ PromptsRight

C5_Witness ==
    /\ Success
    /\ prompt
    /\ Len(answers) = 2
    /\ answers[1] = "yes"
    /\ answers[2] = "no"
    /\ fs[file].content # sess0[file].content

\* C6: for a matching file at most one content action is invoked: the
\* rewriter if a replace template exists, else the searcher if a search
\* pattern exists, else none.
C6_OneContentAction ==
    pc \in {"rename", "hf_end"} =>
        /\ calls.rewrite + calls.search <= 1
        /\ calls.rewrite = 1 <=> has_replace(text_replacer)
        /\ calls.search = 1 <=> (~has_replace(text_replacer) /\ has_search(text_replacer))

C6_Witness ==
    /\ pc = "hf_end"
    /\ has_replace(text_replacer)
    /\ has_search(text_replacer)
    /\ calls = [rewrite |-> 1, search |-> 0]

\* the directories above a path
Ancestors(path) == {Take(parent(path), k) : k \in 0..Len(parent(path))}
\* the traversal failed neither on the entry nor on a directory above it
Spared(path) == path \notin failed /\ Ancestors(path) \cap failed = {}

\* C7: a file whose filename does not match (and whose entry the traversal
\* could read) is, throughout the traversal, still there with its content,
\* and nothing is printed for it.
C7_UnmatchedUntouched ==
    \A p \in DOMAIN fs0 :
        (/\ to_str_ok(file_name(p))
         /\ ~matches(filename_replacer, file_name(p))
         /\ Spared(p)) =>
            /\ p \in DOMAIN fs
            /\ fs[p] = fs0[p]
            /\ \A i \in 1..Len(stdout) : stdout[i].path # p

\* the file went from its name to the new name
Renamed ==
    /\ file \notin DOMAIN fs
    /\ rn.new \in DOMAIN fs
    /\ fs[rn.new] = rn.pre[file]
RenameCalledFor ==
    /\ has_replace(filename_replacer)
    /\ new_path(file) # file
    /\ (~prompt \/ rn.answer = "yes")

\* C8 as stated: a matching file is renamed if and only if a template exists,
\* the new filename differs and (prompting is off or the user confirmed).
C8_RenamedIffCalledFor ==
    pc = "hf_end" => (Renamed <=> RenameCalledFor)

\* C8 amended: the rename is attempted if and only if a template exists, the
\* new filename differs and (prompting is off or the user confirmed); the file
\* is renamed if and only if that attempt succeeds, and keeps its name
\* otherwise.
C8_RenamedIffCalledForAndOk ==
    pc = "hf_end" =>
        /\ rn.result # "none" <=> RenameCalledFor
        /\ Renamed <=> (RenameCalledFor /\ rn.result = "ok")
        /\ ~Renamed => fs = rn.pre

C8_Witness ==
    /\ pc = "hf_end"
    /\ prompt
    /\ rn.answer = "yes"
    /\ rn.result = "err"
    /\ file \in DOMAIN fs

\* the bare filename of the current file was printed
Printed == \E i \in 1..Len(stdout) : stdout[i] = Msg("filename", file, 0)
\* a content action ran on the file (it was opened)
ContentOccurred == outcome \notin {"none", "open_failed"}

\* C9 as stated: (quiet mode off) the bare filename is printed exactly when
\* neither a content action nor a rename occurred, a declined or failed rename
\* and a failed open counting as not occurred.
C9_PrintedIffNothingOccurred ==
    (pc = "hf_end" /\ ~quiet) => (Printed <=> ~(ContentOccurred \/ Renamed))

\* C9 amended: the bare filename is printed exactly when quiet mode is off, no
\* content action is configured (no replace template, no search pattern) and
\* no rename is called for (no template, or the new filename is the same); a
\* declined or failed rename and a failed open still suppress it.
C9_PrintedIffNothingConfigured ==
    pc = "hf_end" =>
        (Printed <=> (/\ ~quiet
                      /\ ~has_replace(text_replacer)
                      /\ ~has_search(text_replacer)
                      /\ ~(/\ has_replace(filename_replacer)
                           /\ new_path(file) # file)))

C9_Witness ==
    /\ pc = "hf_end"
    /\ ~quiet
    /\ rn.wanted
    /\ rn.answer = "no"
    /\ ~Renamed
    /\ ~ContentOccurred
    /\ ~Printed

\* the message that reports a failure of each kind
ReportOf(kind) ==
    CASE kind = "open" -> "open_failed"
      [] kind = "read" -> "read_failed"
      [] kind = "write" -> "write_failed"
      [] kind = "set_failed" -> "permissions_failed"
      [] kind = "tmp_rename" -> "tmp_rename_failed"
      [] kind = "rename" -> "rename_failed"
      [] kind = "tmp_open" -> "tmp_open_failed"
      [] OTHER -> "none"

Reported(e) ==
    \E i \in 1..Len(stdout) :
        stdout[i].kind = ReportOf(e.kind) /\ stdout[i].path = e.path

\* C10 as stated: every open, read, write, permission-copy, rename and
\* temporary-file failure of the current file has its message on standard
\* output, quiet or not.
C10_ErrorsAlwaysReported ==
    \A e \in errs : ReportOf(e.kind) # "none" => Reported(e)

\* C10 amended: every read, write, set_permissions, rename and temporary-file
\* failure of the current file has its message on standard output, quiet or
\* not; a failure to open the source file has its message only when quiet
\* mode is off.
C10_ErrorsReportedButOpen ==
    \A e \in errs :
        /\ ReportOf(e.kind) \notin {"none", "open_failed"} => Reported(e)
        /\ e.kind = "open" => (Reported(e) <=> ~quiet)

C10_Witness ==
    /\ quiet
    /\ pc = "hf_end"
    /\ Err("write", file) \in errs
    /\ Err("rename", file) \in errs
    /\ Reported(Err("write", file))
    /\ Reported(Err("rename", file))

\* the search of the current file is under way or has returned
SearchRan == calls.search = 1 /\ pc \in {"sfc_loop", "rename"}
\* the match reports printed for the current file, in order
RECURSIVE Reports(_)
Reports(out) ==
    IF out = <<>> THEN <<>>
    ELSE (IF Head(out).kind = "match" /\ Head(out).path = file
          THEN <<Head(out)>> ELSE <<>>) \o Reports(Tail(out))
\* one report per matching line among ls, from line i on, numbered from 1
RECURSIVE ReportsDue(_, _)
ReportsDue(ls, i) ==
    IF i > Len(ls) THEN <<>>
    ELSE (IF matches(text_replacer, ls[i])
          THEN <<MsgText("match", file, i, trim(ls[i]))>> ELSE <<>>)
         \o ReportsDue(ls, i + 1)
\* the lines the search has read so far
LinesRead == Lines(Take(sess0[file].content, rpos))

\* C12 as stated: a search that read the whole file has printed one report
\* per matching line and none for the others, in file order, each with the
\* 1-based number of its line, and the file system is as it was.
C12_OneReportPerMatchingLine ==
    (SearchRan /\ outcome = "searched") =>
        /\ Reports(stdout) = ReportsDue(Lines0, 1)
        /\ fs = sess0

\* C12 amended: with quiet mode off the reports printed are one per matching
\* line among the lines read so far (all the lines once the search has read
\* the whole file, the lines before the failure after a read failure), in
\* file order, each with the 1-based number of its line and the trimmed line;
\* with quiet mode on no report is printed; the file system is unchanged.
C12_OneReportPerMatchingLineUnlessQuiet ==
    SearchRan =>
        /\ Reports(stdout) = IF quiet THEN <<>> ELSE ReportsDue(LinesRead, 1)
        /\ outcome = "searched" => LinesRead = Lines0
        /\ fs = sess0
        /\ tmp_file = NoName

C12_Witness ==
    /\ SearchRan
    /\ ~quiet
    /\ outcome = "searched"
    /\ Len(Lines0) = 2
    /\ ~matches(text_replacer, Lines0[1])
    /\ Reports(stdout) = <<MsgText("match", file, 2, <<"a">>)>>

RECURSIVE FirstOf(_, _)
FirstOf(ops, i) ==
    IF i > Len(log) THEN 0 ELSE IF log[i] \in ops THEN i ELSE FirstOf(ops, i + 1)
\* the operations on the temporary file: rename over the original, removal
TmpOps == {"rename", "rename_failed", "remove", "remove_failed"}
Closes == {"close_reader", "close_writer"}
\* both closes are in the log before position i
ClosedBefore(i) ==
    \A c \in Closes : \E j \in 1..(i - 1) : log[j] = c

\* C15 as stated: both handles are closed before any rename or removal of
\* the temporary file, on the success path and on the failure paths.
C15_ClosedBeforeRenameOrDelete ==
    FirstOf(TmpOps, 1) # 0 => ClosedBefore(FirstOf(TmpOps, 1))

\* C15 amended: on the success path both handles are closed before the rename
\* of the temporary file over the original; after a read or write failure the
\* removal of the temporary file comes first, while both handles are open,
\* and the writer and the reader are closed when the function returns.
C15_ClosedBeforeRenameOnly ==
    /\ FirstOf({"rename", "rename_failed"}, 1) # 0 =>
          ClosedBefore(FirstOf({"rename", "rename_failed"}, 1))
    /\ pc \in {"rfc_perm", "rfc_rename"} => handles = {}
    /\ pc = "rfc_loop" => handles = {"reader", "writer"}
    /\ (RfcEnded /\ outcome \in {"read_failed", "write_failed"}) =>
          /\ log \in {<<"remove", "close_writer", "close_reader">>,
                       <<"remove_failed", "close_writer", "close_reader">>}
          /\ handles = {}

C15_Witness ==
    /\ RfcEnded
    /\ outcome = "write_failed"
    /\ log = <<"remove", "close_writer", "close_reader">>
    /\ tmp_file \notin DOMAIN fs

\* a message about the permissions of the current file was printed
PermissionsReported ==
    \E i \in 1..Len(stdout) :
        stdout[i].kind = "permissions_failed" /\ stdout[i].path = file
PermissionsFailed ==
    Err("set_failed", file) \in errs \/ Err("metadata_failed", file) \in errs
\* the session passed the loop: every line was read and handed to the writer
LoopDone == Len(answers) = Len(Lines0) /\ Len(written) = Len(Lines0)
\* the order of the steps after the loop
SuccessOrder ==
    /\ Len(log) = 4
    /\ log[1] = "close_reader"
    /\ log[2] = "close_writer"
    /\ log[3] \in {"set_permissions", "set_permissions_failed"}
    /\ log[4] \in {"rename", "rename_failed"}
    /\ log[3] = "set_permissions_failed" <=> PermissionsFailed

\* C16 as stated: on the success path the lines are all read and written,
\* then the handles are closed, then the permissions are copied, then the
\* temporary file is renamed; a failed permission copy is reported and the
\* rename is still performed.
C16_SuccessOrderCopyFailureReported ==
    /\ (RfcEnded /\ outcome \in {"renamed", "rename_failed"}) =>
          /\ LoopDone
          /\ SuccessOrder
          /\ PermissionsFailed <=> PermissionsReported
    /\ (RfcEnded /\ PermissionsFailed) => outcome \in {"renamed", "rename_failed"}

\* C16 amended: the same order; a failure of set_permissions is reported, a
\* failure to read the metadata of the original is not reported and skips the
\* copy; after either the rename is still performed.
C16_SuccessOrderSetFailureReported ==
    /\ pc = "rfc_close" => (LoopDone /\ log = <<>>)
    /\ pc = "rfc_perm" => (LoopDone /\ log = <<"close_reader", "close_writer">>)
    /\ (RfcEnded /\ outcome \in {"renamed", "rename_failed"}) =>
          /\ LoopDone
          /\ SuccessOrder
          /\ Err("set_failed", file) \in errs <=> PermissionsReported
          /\ outcome = "renamed" =>
                fs[file].mode = IF PermissionsFailed THEN DefaultMode
                                ELSE sess0[file].mode
    /\ (RfcEnded /\ PermissionsFailed) => outcome \in {"renamed", "rename_failed"}

C16_Witness ==
    /\ RfcEnded
    /\ outcome = "renamed"
    /\ Err("metadata_failed", file) \in errs
    /\ ~PermissionsReported
    /\ Len(Lines0) = 2
    /\ log = <<"close_reader", "close_writer", "set_permissions_failed", "rename">>

\* both templates are configured and handle_file is at its end
BothTemplates ==
    pc = "hf_end" /\ has_replace(text_replacer) /\ has_replace(filename_replacer)
\* the rewrite of the current file ran to its rename and no step of it failed
RewriteSucceeded ==
    calls.rewrite = 1 /\ outcome = "renamed" /\ Err("flush", file) \notin errs

\* C17: with both templates a matching file is rewritten, on its original
\* path, and then renamed: the rename is attempted exactly when it is called
\* for, whatever the outcome of the rewrite; when both succeed the new name
\* holds the rewritten content.
C17_RewrittenThenRenamed ==
    BothTemplates =>
        /\ calls = [rewrite |-> 1, search |-> 0]
        /\ rn.result # "none" <=> RenameCalledFor
        /\ RewriteSucceeded =>
              /\ file \in DOMAIN rn.pre
              /\ rn.pre[file].content = Flatten(Expected)
        /\ (RewriteSucceeded /\ rn.result = "ok") =>
              /\ file \notin DOMAIN fs
              /\ fs[rn.new].content = Flatten(Expected)
        /\ (outcome # "renamed" /\ rn.result = "ok") =>
              fs[rn.new] = sess0[file]

C17_Witness ==
    /\ BothTemplates
    /\ RewriteSucceeded
    /\ rn.result = "ok"
    /\ rn.new # file
    /\ fs[rn.new].content # sess0[file].content
    /\ fs[rn.new].content = Flatten(Expected)

\* C19: with no content rewrite configured, every file of the directory at
\* start is still there with its content, under its name or under the name
\* the filename template gives it.
C19_RenameNeverDestroys ==
    ~has_replace(text_replacer) =>
        \A p \in DOMAIN fs0 :
            \/ p \in DOMAIN fs /\ fs[p] = fs0[p]
            \/ new_path(p) \in DOMAIN fs /\ fs[new_path(p)] = fs0[p]

\* some texts, none of them empty
SomeTexts == {A, B, <<"a", NL>>, <<NL>>, <<SP>>, <<"b", "b">>, tmp_path(A)}
\* a replacer built with the search absent and the replace present matches
\* every text
Coerced(pattern, template, replacer) ==
    (~Regex_new(pattern).some /\ template.some) =>
        /\ has_search(replacer)
        /\ \A t \in SomeTexts : matches(replacer, t)

\* C13: each of the two replacers has a search expression if it has a
\* replace pattern; built with the search absent (not given, or given and
\* not compilable) and the replace present it has a search expression and
\* matches every text; the rewriter runs only with a search expression.
C13_ReplaceImpliesSearch ==
    /\ has_replace(filename_replacer) => has_search(filename_replacer)
    /\ has_replace(text_replacer) => has_search(text_replacer)
    /\ Coerced(args.input, args.output, filename_replacer)
    /\ Coerced(args.search, args.replace, text_replacer)
    /\ calls.rewrite = 1 => has_search(text_replacer)
    /\ ~args.output.some => filename_replacer.search_expression = Regex_new(args.input)
    /\ ~args.replace.some => text_replacer.search_expression = Regex_new(args.search)

C13_Witness ==
    /\ args.search = BadPattern
    /\ args.replace.some
    /\ has_search(text_replacer)
    /\ RfcEnded
    /\ outcome = "renamed"
    /\ fs[file].content # sess0[file].content

\* C20: with prompting a line is replaced only after the answer y, and is
\* written as it was after any other answer, the end of the input or a failed
\* read; a file is renamed only after the answer y and nothing is renamed
\* otherwise.  Without prompting every line that differs is replaced and
\* every rename that is wanted is attempted, and standard input is not read.
C20_DefaultDeny ==
    /\ calls.rewrite = 1 =>
          \A i \in 1..Len(written) :
              LET line == Lines0[i]
                  new_line == do_replace(text_replacer, line)
              IN /\ prompt =>
                      /\ answers[i] # "none" <=> new_line # line
                      /\ answers[i] = "yes" => written[i] = new_line
                      /\ answers[i] # "yes" => written[i] = line
                 /\ ~prompt => (answers[i] = "none" /\ written[i] = new_line)
    /\ pc = "hf_end" =>
          /\ prompt =>
                /\ rn.answer # "none" <=> rn.wanted
                /\ rn.result # "none" <=> rn.answer = "yes"
                /\ rn.result = "none" => fs = rn.pre
          /\ ~prompt =>
                /\ rn.answer = "none"
                /\ rn.result # "none" <=> rn.wanted

C20_Witness ==
    /\ pc = "hf_end"
    /\ prompt
    /\ Len(written) = 2
    /\ answers = <<"no", "yes">>
    /\ written = <<Lines0[1], do_replace(text_replacer, Lines0[2])>>
    /\ rn.wanted
    /\ rn.answer = "no"
    /\ file \in DOMAIN fs

\* the replacement reintroduces no match: the replace pattern holds none, and
\* no line of what the first run left in the current file holds one
NoMatchReintroduced ==
    /\ ~is_match(text_replacer.search_expression, text_replacer.replace_pattern.v)
    /\ \A i \in 1..Len(Lines(pass1[file].content)) :
          ~matches(text_replacer, Lines(pass1[file].content)[i])

\* C14: without prompting, when the second run has rewritten a file that the
\* first run rewrote, and the replacement reintroduces no match, the file
\* holds what the first run left in it.
C14_SecondPassIdentical ==
    (/\ pass = "second"
     /\ ~prompt
     /\ RfcEnded
     /\ file \in rewritten
     /\ NoMatchReintroduced) =>
        /\ file \in DOMAIN fs
        /\ fs[file].content = pass1[file].content

\* every file of the tree with a matching filename that no failure of the
\* traversal hides was given to handle_file, which has returned
AllDispatched ==
    \A p \in DOMAIN fs0 :
        (/\ to_str_ok(file_name(p))
         /\ matches(filename_replacer, file_name(p))
         /\ Spared(p)) => p \in handled

\* the steps the traversal still owes to entry n: one for a file; for a
\* directory the call, the listing, its entries and the return
RECURSIVE Owed(_)
SumOwed(set) ==
    LET RECURSIVE Sum(_)
        Sum(ns) == IF ns = {} THEN 0
                   ELSE LET n == CHOOSE x \in ns : TRUE IN Owed(n) + Sum(ns \ {n})
    IN Sum(set)
Owed(n) == IF IsDir(fs, n) THEN 3 + SumOwed(read_dir(fs, n)) ELSE 1
RECURSIVE OwedBy(_)
OwedBy(frames) ==
    IF frames = <<>> THEN 0
    ELSE 1 + SumOwed(Head(frames).iter) + OwedBy(Tail(frames))
\* the steps the traversal still owes in all
Pending ==
    (IF pc = "done" THEN 0 ELSE 1)
    + OwedBy(stack) + SumOwed(iter)
    + (IF pc = "read_dir" THEN 1 + SumOwed(read_dir(fs, dir)) ELSE 0)
\* what is left of the file being read
LeftToRead == IF file \in DOMAIN fs THEN Len(fs[file].content) - rpos ELSE 0
\* the steps handle_file still owes to the current file
OwedToFile ==
    CASE pc = "rfc_open" -> LeftToRead + 8
      [] pc = "rfc_open_tmp" -> LeftToRead + 7
      [] pc = "rfc_loop" -> LeftToRead + 6
      [] pc = "rfc_close" -> 5
      [] pc = "rfc_perm" -> 4
      [] pc = "rfc_rename" -> 3
      [] pc = "sfc_open" -> LeftToRead + 5
      [] pc = "sfc_loop" -> LeftToRead + 3
      [] pc = "rename" -> 2
      [] pc = "hf_end" -> 1
      [] OTHER -> 0
\* runs to come, steps of the traversal, steps on the current file
Variant == <<IF pass = "first" THEN 1 ELSE 0, Pending, OwedToFile>>
Less(v, w) ==
    \/ v[1] < w[1]
    \/ v[1] = w[1] /\ v[2] < w[2]
    \/ v[1] = w[1] /\ v[2] = w[2] /\ v[3] < w[3]

\* C11: whatever fails, a run that has not ended can take a step, every step
\* lessens what is left to do, so the run ends; and when it has ended every
\* file with a matching filename was given to handle_file and handle_file
\* has returned, but for the entries that could not be read and the files
\* below a directory that could not be read.
C11_NoFailureStopsTheRun ==
    /\ [](pc # "done" => ENABLED Next)
    /\ [][Less(Variant', Variant)]_vars
    /\ [](pc = "done" => AllDispatched)

C11_Witness ==
    /\ pc = "done"
    /\ <<"d/">> \in failed
    /\ A \in handled
    /\ <<"d/", "a">> \notin handled
    /\ matches(filename_replacer, A)
    /\ faults = 2
    /\ A \in DOMAIN fs
    /\ fs[A] # fs0[A]

====
